---- MODULE Spec2Model ----
(***************************************************************************)
(* Model of src/apis/candidates.js: the ownership-challenge endpoints      *)
(* (generateMessage, verifyScannedQR, getSignature, update) over the       *)
(* db.Signature collection, and the reward history endpoint (getRewards).  *)
(* Every step of a handler that touches the shared collection is one       *)
(* action; what a handler does between two awaits on the collection is     *)
(* local to the request and belongs to the step that precedes it.          *)
(***************************************************************************)
EXTENDS Integers, Sequences, FiniteSets, TLC

\* ------------------------------------------------------------------ bounds
NumRequests == 2        \* requests that can be in flight at once
MaxTokens == 2          \* uuids handed out by uuidv4

Procs == 1..NumRequests
Ids == 1..MaxTokens
Times == {1, 2}         \* timestamps new Date() gives

\* ------------------------------------------------------- addresses, strings
\* Private keys; the address of a key is written in lower case, the
\* checksummed (mixed case) form that web3 returns in upper case.
Keys == {"a1", "a2"}
Unrelated == "Zz"       \* what ECDSA recovery gives for a signature over other data

toChecksum(a) ==
    CASE a = "a1" -> "A1"
      [] a = "a2" -> "A2"
      [] OTHER -> a

toLowerCase(s) ==
    CASE s = "A1" -> "a1"
      [] s = "A2" -> "a2"
      [] s = "Zz" -> "zz"
      [] OTHER -> s

\* db.Candidate: constant here, update only changes display fields.
Candidate == {[candidate |-> "c1", owner |-> "a1"]}
CandidateParams == {"c1", "c9"}
AccountParams == {"A1", "a2"}

\* generateMessage's text: the timestamp and the candidate are its only
\* varying parts.
messageText(time, candidate) == <<"Tomomaster", time, candidate>>
Messages == {messageText(t, c.candidate) : t \in Times, c \in Candidate}

Malformed == [by |-> "malformed", msg |-> <<>>]
undefinedSignature == [by |-> "undefined", msg |-> <<>>]
emptySignature == [by |-> "", msg |-> <<>>]
sign(key, message) == [by |-> key, msg |-> message]
Signatures == {sign(k, m) : k \in Keys, m \in Messages} \cup {Malformed}

\* web3.eth.accounts.recover: the signer's address when the signature is over
\* this message, an unrelated address when it is over other data. Callers
\* test for Malformed first (recover throws).
recover(message, signature) ==
    IF signature.msg = message THEN toChecksum(signature.by) ELSE Unrelated

\* ------------------------------------------------------ db.Signature store
null == [signedAddress |-> "null", signedId |-> 0, status |-> FALSE,
         message |-> <<>>, signature |-> undefinedSignature]

VARIABLES
    Signature,      \* the db.Signature collection, in insertion order
    pc,             \* pc[p]: where request p is
    req,            \* req[p]: the locals of request p
    uuids,          \* number of uuids generated so far
    issued,         \* responses of generateMessage, in response order
    used,           \* used[id]: number of 'Done' answers of verifyScannedQR for id
    resp            \* the last response sent

challengeVars == <<Signature, pc, req, uuids, issued, used, resp>>

VARIABLES
    Status,         \* db.Status: Status[e] is the record of epoch e
    gpc,            \* where the getRewards request is
    query,          \* its limit and skip
    MNArr,          \* per masternode record of the page: the lookup's progress
    gresp           \* the response of getRewards

historyVars == <<Status, gpc, query, MNArr, gresp>>

matching(coll, field, value) == {i \in 1..Len(coll) : coll[i][field] = value}
first(S) == CHOOSE i \in S : \A j \in S : i <= j

\* Model.findOne({field: value}): the first matching document or null.
findOne(coll, field, value) ==
    IF matching(coll, field, value) = {} THEN null
    ELSE coll[first(matching(coll, field, value))]

merge(doc, data) == [f \in DOMAIN doc |-> IF f \in DOMAIN data THEN data[f] ELSE doc[f]]

\* An upsert that does not look for the address's document.
findOneAndUpdate_AlwaysInsert(coll, address, data) ==
    Append(coll, merge([null EXCEPT !.signedAddress = address], data))

\* Model.findOneAndUpdate({signedAddress}, data, {upsert: true}): one atomic
\* store operation.
findOneAndUpdate(coll, address, data) ==
    IF matching(coll, "signedAddress", address) = {}
    THEN Append(coll, merge([null EXCEPT !.signedAddress = address], data))
    ELSE [coll EXCEPT ![first(matching(coll, "signedAddress", address))] = merge(@, data)]

\* Model.updateOne({signedAddress}, {$set: data}): no upsert.
updateOne(coll, address, data) ==
    IF matching(coll, "signedAddress", address) = {} THEN coll
    ELSE [coll EXCEPT ![first(matching(coll, "signedAddress", address))] = merge(@, data)]

\* ------------------------------------------------------- request bookkeeping
idleReq == [id |-> 0, account |-> "", message |-> <<>>, signature |-> undefinedSignature,
            signer |-> "", signedAddress |-> "", checkId |-> null]

\* A response: the endpoint, the id it is about, the outcome, and the signature
\* in the body of a getSignature answer.
noResp == [op |-> "none", id |-> 0, result |-> "", signature |-> undefinedSignature]

Done == "Done"
UnknownToken == "id is not match"
AlreadyConsumed == "Cannot use a QR code twice"
SignatureMismatch == "The Signature Message Verification Failed"
MalformedSignature == "recover threw"
UnknownCandidate == "This address is not a candidate"
NoData == "No data"

\* Request slots are interchangeable: a new request takes the lowest free one.
free(p) == pc[p] = "idle" /\ \A q \in Procs : q < p => pc[q] # "idle"

InitChallenge ==
    /\ Signature = <<>>
    /\ pc = [p \in Procs |-> "idle"]
    /\ req = [p \in Procs |-> idleReq]
    /\ uuids = 0
    /\ issued = <<>>
    /\ used = [i \in Ids |-> 0]
    /\ resp = noResp

\* ------------------------------------------- POST /:candidate/generateMessage
\* db.Candidate.findOne({candidate}): the parameter is matched as given.
findCandidate(candidate) == {c \in Candidate : c.candidate = candidate}

\* uuidv4(): an id no earlier call returned.
uuidv4 == uuids + 1

generateMessage_findOne(p, candidate, account, time) ==
    /\ UNCHANGED historyVars
    /\ free(p)
    /\ IF findCandidate(candidate) = {}
       THEN /\ resp' = [noResp EXCEPT !.op = "generateMessage",
                                      !.result = UnknownCandidate]
            /\ UNCHANGED <<Signature, pc, req, uuids, issued, used>>
       ELSE /\ uuids < MaxTokens
            /\ uuids' = uuidv4
            /\ req' = [req EXCEPT ![p] = [idleReq EXCEPT
                           !.account = toLowerCase(account),
                           !.message = messageText(time, candidate),
                           !.id = uuidv4]]
            /\ pc' = [pc EXCEPT ![p] = "generateMessage_findOneAndUpdate"]
            /\ UNCHANGED <<Signature, issued, used, resp>>

generateMessage_data(id) == [signedId |-> id, status |-> TRUE]

generateMessage_findOneAndUpdate(p) ==
    /\ UNCHANGED historyVars
    /\ pc[p] = "generateMessage_findOneAndUpdate"
    /\ Signature' = findOneAndUpdate(Signature, req[p].account,
                                     generateMessage_data(req[p].id))
    /\ issued' = Append(issued, [id |-> req[p].id, account |-> req[p].account,
                                 message |-> req[p].message])
    /\ resp' = [noResp EXCEPT !.op = "generateMessage", !.id = req[p].id,
                              !.result = "OK"]
    /\ pc' = [pc EXCEPT ![p] = "idle"]
    /\ req' = [req EXCEPT ![p] = idleReq]
    /\ UNCHANGED <<uuids, used>>

\* ------------------------------------------------------ POST /verifyScannedQR
\* The checks without the comparison of signer with the recovered address.
verifyScannedQR_check_NoSigner(checkId, id, message, signature, signer) ==
    CASE checkId = null -> UnknownToken
      [] ~checkId.status -> AlreadyConsumed
      [] signature = Malformed -> MalformedSignature
      [] \/ checkId.signedAddress # toLowerCase(recover(message, signature))
         \/ id # checkId.signedId -> SignatureMismatch
      [] OTHER -> Done

\* The checks without the test of checkId.status.
verifyScannedQR_check_NoStatus(checkId, id, message, signature, signer) ==
    CASE checkId = null -> UnknownToken
      [] signature = Malformed -> MalformedSignature
      [] \/ toLowerCase(signer) # toLowerCase(recover(message, signature))
         \/ checkId.signedAddress # toLowerCase(recover(message, signature))
         \/ id # checkId.signedId -> SignatureMismatch
      [] OTHER -> Done

\* The checks between the lookup and the write; Done when all pass.
verifyScannedQR_check(checkId, id, message, signature, signer) ==
    CASE checkId = null -> UnknownToken
      [] ~checkId.status -> AlreadyConsumed
      [] signature = Malformed -> MalformedSignature
      [] \/ toLowerCase(signer) # toLowerCase(recover(message, signature))
         \/ checkId.signedAddress # toLowerCase(recover(message, signature))
         \/ id # checkId.signedId -> SignatureMismatch
      [] OTHER -> Done

\* The handler with the write ahead of the checks.
verifyScannedQR_findOne_WriteFirst(p, id, message, signature, signer) ==
    /\ UNCHANGED historyVars
    /\ free(p)
    /\ LET checkId == findOne(Signature, "signedId", id)
           outcome == verifyScannedQR_check(checkId, id, message, signature, signer)
           locals == [idleReq EXCEPT !.id = id, !.message = message,
                                     !.signature = signature,
                                     !.signer = toLowerCase(signer),
                                     !.checkId = checkId]
       IN IF outcome = Done
          THEN /\ req' = [req EXCEPT ![p] = [locals EXCEPT
                              !.signedAddress = toLowerCase(recover(message, signature))]]
               /\ pc' = [pc EXCEPT ![p] = "verifyScannedQR_findOneAndUpdate"]
               /\ UNCHANGED <<Signature, uuids, issued, used, resp>>
          ELSE /\ resp' = [noResp EXCEPT !.op = "verifyScannedQR", !.id = id,
                                         !.result = outcome]
               /\ Signature' = findOneAndUpdate(Signature, toLowerCase(signer),
                                   [signedId |-> id, message |-> message,
                                    signature |-> signature, status |-> FALSE])
               /\ UNCHANGED <<pc, req, uuids, issued, used>>

verifyScannedQR_findOne(p, id, message, signature, signer) ==
    /\ UNCHANGED historyVars
    /\ free(p)
    /\ LET checkId == findOne(Signature, "signedId", id)
           outcome == verifyScannedQR_check(checkId, id, message, signature, signer)
           locals == [idleReq EXCEPT !.id = id, !.message = message,
                                     !.signature = signature,
                                     !.signer = toLowerCase(signer),
                                     !.checkId = checkId]
       IN IF outcome = Done
          THEN /\ req' = [req EXCEPT ![p] = [locals EXCEPT
                              !.signedAddress = toLowerCase(recover(message, signature))]]
               /\ pc' = [pc EXCEPT ![p] = "verifyScannedQR_findOneAndUpdate"]
               /\ UNCHANGED <<Signature, uuids, issued, used, resp>>
          ELSE /\ resp' = [noResp EXCEPT !.op = "verifyScannedQR", !.id = id,
                                         !.result = outcome]
               /\ UNCHANGED <<Signature, pc, req, uuids, issued, used>>

verifyScannedQR_data(id, message, signature) ==
    [signedId |-> id, message |-> message, signature |-> signature, status |-> FALSE]

verifyScannedQR_findOneAndUpdate(p) ==
    /\ UNCHANGED historyVars
    /\ pc[p] = "verifyScannedQR_findOneAndUpdate"
    /\ Signature' = findOneAndUpdate(Signature, req[p].signedAddress,
                        verifyScannedQR_data(req[p].id, req[p].message, req[p].signature))
    /\ used' = [used EXCEPT ![req[p].id] = @ + 1]
    /\ resp' = [noResp EXCEPT !.op = "verifyScannedQR", !.id = req[p].id,
                              !.result = Done]
    /\ pc' = [pc EXCEPT ![p] = "idle"]
    /\ req' = [req EXCEPT ![p] = idleReq]
    /\ UNCHANGED <<uuids, issued>>

\* ------------------------------------------------ GET /:candidate/getSignature
getSignature_result(signature) ==
    IF signature # null /\ ~signature.status THEN "signature" ELSE NoData

\* A read that blanks the signature it returned.
getSignature_ReadOnce(id) ==
    /\ UNCHANGED historyVars
    /\ LET signature == findOne(Signature, "signedId", id)
       IN /\ resp' = [noResp EXCEPT !.op = "getSignature", !.id = id,
                                    !.result = getSignature_result(signature),
                                    !.signature = IF getSignature_result(signature) = NoData
                                                  THEN undefinedSignature
                                                  ELSE signature.signature]
          /\ Signature' = IF getSignature_result(signature) = NoData THEN Signature
                          ELSE updateOne(Signature, signature.signedAddress,
                                         [signature |-> emptySignature])
    /\ UNCHANGED <<pc, req, uuids, issued, used>>

getSignature(id) ==
    /\ UNCHANGED historyVars
    /\ LET signature == findOne(Signature, "signedId", id)
       IN resp' = [noResp EXCEPT !.op = "getSignature", !.id = id,
                                 !.result = getSignature_result(signature),
                                 !.signature = IF getSignature_result(signature) = NoData
                                               THEN undefinedSignature
                                               ELSE signature.signature]
    /\ UNCHANGED <<Signature, pc, req, uuids, issued, used>>

\* ------------------------------------------------------------- PUT /update
\* The handler's other awaits read and write db.Candidate only; its one
\* operation on db.Signature is the updateOne that blanks the signature.
update(candidate, message, signedMessage) ==
    /\ UNCHANGED historyVars
    /\ LET c == findCandidate(toLowerCase(candidate))
           address == toLowerCase(recover(message, signedMessage))
           result == CASE c = {} -> "Not found"
                       [] signedMessage = Malformed -> MalformedSignature
                       [] \E d \in c : address \in {toLowerCase(d.candidate),
                                                    toLowerCase(d.owner)} -> "OK"
                       [] OTHER -> "Authentication failed"
       IN /\ Signature' = IF result = "OK"
                          THEN updateOne(Signature, address, [signature |-> emptySignature])
                          ELSE Signature
          /\ resp' = [noResp EXCEPT !.op = "update", !.result = result]
    /\ UNCHANGED <<pc, req, uuids, issued, used>>


\* ======================================================= GET getRewards
MaxEpoch == 2           \* epochs the indexer has written
MaxLimit == 2           \* largest limit a request gives explicitly
MaxPage == 2            \* largest page a request gives
DefaultLimit == 100
blockchainReward == 1000
DECIMAL_PLACES == 20

Epochs == 1..MaxEpoch
Absent == -1            \* a query parameter the request does not carry
Limits == {Absent} \cup 0..MaxLimit
Pages == {Absent} \cup 0..MaxPage
params_candidate == "c1"  \* req.params.candidate

\* What the reward service can answer.
SignNumbers == {1, 10}
NoPayload == -1         \* rewardsByEpoch's answer without data
ServiceReward == 7
NoSignNumber == -1      \* totalSignNumber's data without a signNumber
TotalSignNumbers == {NoSignNumber, 0, 3, 100}

\* Values of the reward fields: a JS number, a BigNumber (integer part and
\* decimal digits, trailing zeros dropped) or an absent field.
undefined == [kind |-> "undefined", int |-> 0, frac |-> <<>>]
number(n) == [kind |-> "number", int |-> n, frac |-> <<>>]

RECURSIVE digits(_, _, _)
\* The first k decimal digits of r / d, for 0 <= r < d.
digits(r, d, k) ==
    IF k = 0 THEN <<>> ELSE <<(r * 10) \div d>> \o digits((r * 10) % d, d, k - 1)

RECURSIVE remainder(_, _, _)
remainder(r, d, k) == IF k = 0 THEN r ELSE remainder((r * 10) % d, d, k - 1)

RECURSIVE increment(_)
\* Adds one unit in the last place; <<carry, digits>>.
increment(ds) ==
    IF ds = <<>> THEN <<1, <<>>>>
    ELSE IF ds[Len(ds)] < 9
         THEN <<0, [ds EXCEPT ![Len(ds)] = @ + 1]>>
         ELSE LET up == increment(SubSeq(ds, 1, Len(ds) - 1))
              IN <<up[1], Append(up[2], 0)>>

RECURSIVE strip(_)
strip(ds) ==
    IF ds # <<>> /\ ds[Len(ds)] = 0 THEN strip(SubSeq(ds, 1, Len(ds) - 1)) ELSE ds

\* BigNumber(n).dividedBy(d), n >= 0, d > 0: DECIMAL_PLACES digits, rounded
\* half up.
dividedBy(n, d) ==
    LET ds == digits(n % d, d, DECIMAL_PLACES)
        up == IF 2 * remainder(n % d, d, DECIMAL_PLACES) >= d
              THEN increment(ds) ELSE <<0, ds>>
    IN [kind |-> "BigNumber", int |-> (n \div d) + up[1], frac |-> strip(up[2])]

\* The categories of an epoch's record that list the candidate.
Categories ==
    [masternodes : SUBSET {params_candidate}, penalties : SUBSET {params_candidate},
     proposes : SUBSET {params_candidate}]

StatusRecord(e, c) ==
    [epoch |-> e, masternodes |-> c.masternodes, penalties |-> c.penalties,
     proposes |-> c.proposes, blockCreatedAt |-> 100 + e]

noItems == [items |-> <<>>, total |-> 0, error |-> ""]

InitHistory ==
    /\ \E c \in [Epochs -> Categories] :
           Status = [e \in Epochs |-> StatusRecord(e, c[e])]
    /\ gpc = "idle"
    /\ query = [limit |-> 0, skip |-> 0]
    /\ MNArr = <<>>
    /\ gresp = noItems

IdleHistory ==
    /\ Status = <<>>
    /\ gpc = "idle"
    /\ query = [limit |-> 0, skip |-> 0]
    /\ MNArr = <<>>
    /\ gresp = noItems

\* db.Status.countDocuments({field: {$elemMatch: {$in: [candidate]}}})
countDocuments(field) == Cardinality({e \in DOMAIN Status : params_candidate \in Status[e][field]})

RECURSIVE descending(_)
\* The records of the epochs in S, highest epoch first.
descending(S) ==
    IF S = {} THEN <<>>
    ELSE LET top == CHOOSE e \in S : \A f \in S : f <= e
         IN <<Status[top]>> \o descending(S \ {top})

\* The cursor without its skip.
window_NoSkip(docs, limit, skip) ==
    IF limit = 0 THEN docs
    ELSE SubSeq(docs, 1, IF limit < Len(docs) THEN limit ELSE Len(docs))

\* .limit(limit).skip(skip): skip first, then at most limit; limit 0 is no limit.
window(docs, limit, skip) ==
    LET rest == SubSeq(docs, skip + 1, Len(docs))
    IN IF limit = 0 THEN rest
       ELSE SubSeq(rest, 1, IF limit < Len(rest) THEN limit ELSE Len(rest))

\* db.Status.find({field: ...}).sort({epoch: -1}).limit(limit).skip(skip)
find(field, limit, skip) ==
    window(descending({e \in DOMAIN Status : params_candidate \in Status[e][field]}), limit, skip)

parseLimit(limit) == IF limit = Absent THEN DefaultLimit ELSE limit
skipOf(limit, page) == IF page = Absent THEN 0 ELSE parseLimit(limit) * (page - 1)

pending == [stage |-> "rewardsByEpoch", epoch |-> 0, signNumber |-> 0,
            reward |-> undefined, masternodeReward |-> undefined,
            rewardTime |-> 0, status |-> ""]

\* The handler starts: the three counts and the three finds are sent, the
\* masternode page is read and one rewardsByEpoch call per record is sent.
\* The store answers a negative skip with an error.
getRewards_find(limit, page) ==
    /\ UNCHANGED challengeVars
    /\ gpc = "idle"
    /\ IF skipOf(limit, page) < 0
       THEN /\ gpc' = "failed"
            /\ gresp' = [noItems EXCEPT !.error = "skip"]
            /\ UNCHANGED <<Status, query, MNArr>>
       ELSE /\ gpc' = "building"
            /\ query' = [limit |-> parseLimit(limit), skip |-> skipOf(limit, page)]
            /\ MNArr' = [i \in DOMAIN find("masternodes", parseLimit(limit),
                                          skipOf(limit, page)) |-> pending]
            /\ UNCHANGED <<Status, gresp>>

masternodes == find("masternodes", query.limit, query.skip)
penalties == find("penalties", query.limit, query.skip)
proposes == find("proposes", query.limit, query.skip)

\* rewardsByEpoch answers for record i: no payload, or a payload for the epoch
\* asked for.
rewardsByEpoch(i, data) ==
    /\ UNCHANGED challengeVars
    /\ gpc = "building"
    /\ i \in DOMAIN MNArr /\ MNArr[i].stage = "rewardsByEpoch"
    /\ MNArr' = [MNArr EXCEPT ![i] =
           IF data = NoPayload
           THEN [stage |-> "resolved", epoch |-> masternodes[i].epoch, signNumber |-> 0,
                 reward |-> undefined, masternodeReward |-> number(0),
                 rewardTime |-> masternodes[i].blockCreatedAt, status |-> "MASTERNODE"]
           ELSE [stage |-> "totalSignNumber", epoch |-> masternodes[i].epoch,
                 signNumber |-> data, reward |-> number(ServiceReward),
                 masternodeReward |-> undefined,
                 rewardTime |-> 900 + masternodes[i].epoch, status |-> "REWARD"]]
    /\ UNCHANGED <<Status, gpc, query, gresp>>

\* The amount taken from the payload's reward whatever the signer total.
masternodeReward_RewardField(result, signNumber) == result.reward

\* The amount once totalSignNumber answered signNumber.
masternodeReward(result, signNumber) ==
    IF signNumber # NoSignNumber /\ signNumber # 0
    THEN dividedBy(blockchainReward * result.signNumber, signNumber)
    ELSE result.reward

totalSignNumber(i, signNumber) ==
    /\ UNCHANGED challengeVars
    /\ gpc = "building"
    /\ i \in DOMAIN MNArr /\ MNArr[i].stage = "totalSignNumber"
    /\ MNArr' = [MNArr EXCEPT ![i] = [@ EXCEPT
           !.stage = "resolved",
           !.masternodeReward = masternodeReward(MNArr[i], signNumber),
           !.status = "MASTERNODE"]]
    /\ UNCHANGED <<Status, gpc, query, gresp>>

\* A call to the reward service fails: Promise.all rejects and the handler's
\* catch passes the error on.
axios_rejects(i) ==
    /\ UNCHANGED challengeVars
    /\ gpc = "building"
    /\ i \in DOMAIN MNArr /\ MNArr[i].stage # "resolved"
    /\ gpc' = "failed"
    /\ gresp' = [noItems EXCEPT !.error = "axios"]
    /\ UNCHANGED <<Status, query, MNArr>>

\* totalSignNumber answers for record i with a body without data: reading
\* totalSigners.data.signNumber throws inside the map callback.
totalSignNumber_null(i) ==
    /\ UNCHANGED challengeVars
    /\ gpc = "building"
    /\ i \in DOMAIN MNArr /\ MNArr[i].stage = "totalSignNumber"
    /\ gpc' = "failed"
    /\ gresp' = [noItems EXCEPT !.error = "TypeError"]
    /\ UNCHANGED <<Status, query, MNArr>>

\* The masternode find is rejected by the store: the handler throws at its
\* first await, before any call to the reward service.
find_rejects(limit, page) ==
    /\ UNCHANGED challengeVars
    /\ gpc = "idle"
    /\ skipOf(limit, page) >= 0
    /\ gpc' = "failed"
    /\ gresp' = [noItems EXCEPT !.error = "db"]
    /\ UNCHANGED <<Status, query, MNArr>>

\* The promises the handler awaits after Promise.all over the masternode page.
Awaited == {"penalty", "propose", "masternodeTimes", "penaltyTimes", "proposeTimes"}

\* Promise.all over the lookups has resolved.
resolved_Any(M) == TRUE

resolved(M) == \A i \in DOMAIN M : M[i].stage = "resolved"

\* One of the later queries is rejected by the store: the handler meets the
\* rejection when it awaits that promise, after the lookups.
await_rejects(promise) ==
    /\ UNCHANGED challengeVars
    /\ gpc = "building"
    /\ resolved(MNArr)
    /\ promise \in Awaited
    /\ gpc' = "failed"
    /\ gresp' = [noItems EXCEPT !.error = "db"]
    /\ UNCHANGED <<Status, query, MNArr>>

item(m) == [epoch |-> m.epoch, status |-> m.status, masternodeReward |-> m.masternodeReward,
            reward |-> m.reward, signNumber |-> m.signNumber, rewardTime |-> m.rewardTime]

penArr == [i \in DOMAIN penalties |->
              [epoch |-> penalties[i].epoch, status |-> "SLASHED",
               masternodeReward |-> number(0), reward |-> undefined, signNumber |-> 0,
               rewardTime |-> penalties[i].blockCreatedAt]]

proposeArr == [i \in DOMAIN proposes |->
                  [epoch |-> proposes[i].epoch, status |-> "PROPOSED",
                   masternodeReward |-> undefined, reward |-> number(0), signNumber |-> 0,
                   rewardTime |-> proposes[i].blockCreatedAt]]

RECURSIVE insert(_, _)
\* x goes behind every element that does not sort after it.
insert(sorted, x) ==
    IF sorted = <<>> THEN <<x>>
    ELSE IF sorted[Len(sorted)].epoch >= x.epoch THEN Append(sorted, x)
         ELSE Append(insert(SubSeq(sorted, 1, Len(sorted) - 1), x), sorted[Len(sorted)])

RECURSIVE sort(_)
\* items.sort((a, b) => b.epoch - a.epoch): stable, epoch descending.
sort(items) ==
    IF items = <<>> THEN <<>>
    ELSE insert(sort(SubSeq(items, 1, Len(items) - 1)), items[Len(items)])

\* The three lists joined in the opposite order.
concat_MasternodeFirst(P, S, M) == M \o S \o P

\* items = [].concat(proposeArr).concat(penArr).concat(MNArr)
concat(P, S, M) == P \o S \o M

\* No cut to limit.
slice_All(items, limit) == items

\* items.slice(0, limit)
slice(items, limit) == SubSeq(items, 1, IF limit < Len(items) THEN limit ELSE Len(items))

total == countDocuments("masternodes") + countDocuments("penalties") + countDocuments("proposes")

\* Every lookup resolved: merge, sort, cut to limit and answer.
getRewards_json ==
    /\ UNCHANGED challengeVars
    /\ gpc = "building"
    /\ resolved(MNArr)
    /\ gpc' = "responded"
    /\ gresp' = [items |-> slice(sort(concat(proposeArr, penArr,
                                             [i \in DOMAIN MNArr |-> item(MNArr[i])])),
                                 query.limit),
                 total |-> total, error |-> ""]
    /\ UNCHANGED <<Status, query, MNArr>>

History ==
    \/ \E limit \in Limits, page \in Pages : getRewards_find(limit, page)
    \/ \E i \in 1..MaxEpoch, data \in SignNumbers \cup {NoPayload} : rewardsByEpoch(i, data)
    \/ \E i \in 1..MaxEpoch, signNumber \in TotalSignNumbers : totalSignNumber(i, signNumber)
    \/ \E i \in 1..MaxEpoch : axios_rejects(i)
    \/ \E i \in 1..MaxEpoch : totalSignNumber_null(i)
    \/ \E limit \in Limits, page \in Pages : find_rejects(limit, page)
    \/ \E promise \in Awaited : await_rejects(promise)
    \/ getRewards_json

\* ------------------------------------------------------------ specifications
vars == <<challengeVars, historyVars>>

Issue ==
    \/ \E p \in Procs, candidate \in CandidateParams, account \in AccountParams,
          time \in Times : generateMessage_findOne(p, candidate, account, time)
    \/ \E p \in Procs : generateMessage_findOneAndUpdate(p)

Consume ==
    \/ \E p \in Procs, id \in Ids, message \in Messages, signature \in Signatures,
          signer \in AccountParams :
            verifyScannedQR_findOne(p, id, message, signature, signer)
    \/ \E p \in Procs : verifyScannedQR_findOneAndUpdate(p)

Read == \E id \in Ids : getSignature(id)

Update == \E candidate \in CandidateParams, message \in Messages,
             signedMessage \in Signatures : update(candidate, message, signedMessage)

Next == Issue \/ Consume \/ Read \/ Update

Init == InitChallenge /\ IdleHistory

\* Requests interleave at their awaits on the collection.
Spec == Init /\ [][Next]_vars

\* One request at a time: a request starts only when none is in flight.
OneAtATime ==
    \/ \A q \in Procs : pc[q] = "idle"
    \/ \E q \in Procs : pc[q] # "idle" /\ pc'[q] = "idle"

NextSeq ==
    \/ Issue /\ OneAtATime
    \/ Consume /\ OneAtATime
    \/ Read /\ OneAtATime
    \/ Update /\ OneAtATime

SpecSeq == Init /\ [][NextSeq]_vars

\* Only generateMessage requests, interleaved.
NextIssue == Issue

SpecIssue == Init /\ [][NextIssue]_vars

\* One getRewards request against any contents of db.Status.
NextHistory == History

InitGetRewards == InitChallenge /\ InitHistory

SpecHistory == InitGetRewards /\ [][NextHistory]_vars

\* ================================================================== claims
\* What the clients know: the generateMessage answer that returned id.
Returned(id) == \E i \in DOMAIN issued : issued[i].id = id
IssuedOf(id) == issued[CHOOSE i \in DOMAIN issued : issued[i].id = id]

\* A later generateMessage for the same account has been answered.
Superseded(id) ==
    \E i, j \in DOMAIN issued :
        i < j /\ issued[i].id = id /\ issued[j].account = issued[i].account

\* NONE, ISSUED or CONSUMED: what a lookup by token finds.
stateOf(coll, id) ==
    IF findOne(coll, "signedId", id) = null THEN "NONE"
    ELSE IF findOne(coll, "signedId", id).status THEN "ISSUED" ELSE "CONSUMED"

\* The request carries a signature made by the account the token was issued
\* to, over the message it submits, and names that account as signer.
ValidFor(id, message, signature, signer) ==
    /\ Returned(id)
    /\ signature = sign(IssuedOf(id).account, message)
    /\ toLowerCase(signer) = IssuedOf(id).account

Accepted(p) == pc[p] = "idle" /\ pc'[p] = "verifyScannedQR_findOneAndUpdate"
Answered(id, result) ==
    resp' = [noResp EXCEPT !.op = "verifyScannedQR", !.id = id, !.result = result]

\* C1: two verifyScannedQR calls for one ISSUED token, interleaved between the
\* lookup by token and the write by address, are never both answered 'Done'.
C1_NoDoubleSuccess == \A id \in Ids : used[id] <= 1

\* A step that answers a verifyScannedQR request with an error.
Refused == pc' = pc /\ resp'.op = "verifyScannedQR" /\ resp'.result # Done

\* The id of the verifyScannedQR request that slot p's step handles, 0 if the
\* step is not one.
handled(p) ==
    CASE Accepted(p) -> req'[p].id
      [] Refused -> resp'.id
      [] OTHER -> 0

\* C2 as stated: in a sequential run a verifyScannedQR with a valid signature
\* is accepted for a freshly issued token, every one after an accepted one is
\* answered AlreadyConsumed, and no token is accepted twice.
C2_Original ==
    [][/\ \A id \in Ids : used'[id] <= 1
       /\ \A p \in Procs : (free(p) /\ handled(p) \in Ids /\ Returned(handled(p))) =>
          \A message \in Messages, signer \in AccountParams :
            (/\ ValidFor(handled(p), message,
                         sign(toLowerCase(signer), message), signer)
             /\ verifyScannedQR_findOne(p, handled(p), message,
                                        sign(toLowerCase(signer), message), signer))
            => IF used[handled(p)] = 0
               THEN Superseded(handled(p)) \/ Accepted(p)
               ELSE Answered(handled(p), AlreadyConsumed)]_vars

\* C2 amended: in a sequential run a verifyScannedQR with a valid signature is
\* accepted for an issued token that no later generateMessage of the same
\* account has replaced and that was not accepted before; after an accepted
\* one it is answered AlreadyConsumed while the token is the account's current
\* one and UnknownToken once a later generateMessage replaced it; no token is
\* accepted twice.
C2_OnceThenRefused ==
    [][/\ \A id \in Ids : used'[id] <= 1
       /\ \A p \in Procs : (free(p) /\ handled(p) \in Ids /\ Returned(handled(p))) =>
          \A message \in Messages, signer \in AccountParams :
            (/\ ValidFor(handled(p), message,
                         sign(toLowerCase(signer), message), signer)
             /\ verifyScannedQR_findOne(p, handled(p), message,
                                        sign(toLowerCase(signer), message), signer))
            => CASE Superseded(handled(p)) -> Answered(handled(p), UnknownToken)
                 [] used[handled(p)] = 0 -> Accepted(p)
                 [] OTHER -> Answered(handled(p), AlreadyConsumed)]_vars

\* C2 witness: a token was accepted once and a later verifyScannedQR for it
\* was refused as used twice.
C2_Witness ==
    /\ resp.op = "verifyScannedQR" /\ resp.result = AlreadyConsumed
    /\ used[resp.id] = 1 /\ Returned(resp.id) /\ ~Superseded(resp.id)

\* C3: for a token found ISSUED, verifyScannedQR goes on to the write only if
\* the recovered address equals the lower-cased signer, equals the
\* challenge's address, and the id equals the stored id; when one of the
\* three fails the answer is the single SignatureMismatch error.
C3_ThreeChecks ==
    [][/\ \A p \in Procs :
            pc'[p] = "verifyScannedQR_findOneAndUpdate" =>
                /\ req'[p].checkId # null /\ req'[p].checkId.status
                /\ req'[p].signature # Malformed
                /\ toLowerCase(recover(req'[p].message, req'[p].signature)) = req'[p].signer
                /\ toLowerCase(recover(req'[p].message, req'[p].signature))
                       = req'[p].checkId.signedAddress
                /\ req'[p].id = req'[p].checkId.signedId
       /\ \A p \in Procs :
            (/\ free(p) /\ handled(p) \in Ids
             /\ stateOf(Signature, handled(p)) = "ISSUED") =>
          \A message \in Messages, signature \in Signatures \ {Malformed},
             signer \in AccountParams :
            verifyScannedQR_findOne(p, handled(p), message, signature, signer)
            => LET d == findOne(Signature, "signedId", handled(p))
                   recovered == toLowerCase(recover(message, signature))
               IN IF /\ recovered = toLowerCase(signer)
                     /\ recovered = d.signedAddress
                     /\ handled(p) = findOne(Signature, "signedAddress", recovered).signedId
                  THEN Accepted(p)
                  ELSE Answered(handled(p), SignatureMismatch) /\ pc' = pc]_vars

\* C3 witness: one request was answered SignatureMismatch and the next passed
\* the three checks and is about to write.
C3_Witness ==
    \E p \in Procs :
        /\ pc[p] = "verifyScannedQR_findOneAndUpdate"
        /\ resp.op = "verifyScannedQR" /\ resp.result = SignatureMismatch

\* C4: a challenge is CONSUMED only with the message generateMessage returned
\* for its token.
C4_MessageBound ==
    \A i \in DOMAIN Signature :
        (~Signature[i].status /\ Returned(Signature[i].signedId))
        => Signature[i].message = IssuedOf(Signature[i].signedId).message

\* C5: after any interleaving of generateMessage calls the collection holds at
\* most one document per address, the id of the account's last answered
\* generateMessage resolves to its ISSUED document, and no id of an earlier
\* answer for that account resolves.
C5_OneLivePerAddress ==
    /\ \A i, j \in DOMAIN Signature :
           Signature[i].signedAddress = Signature[j].signedAddress => i = j
    /\ \A i \in DOMAIN issued :
           IF Superseded(issued[i].id)
           THEN stateOf(Signature, issued[i].id) = "NONE"
           ELSE /\ stateOf(Signature, issued[i].id) = "ISSUED"
                /\ findOne(Signature, "signedId", issued[i].id).signedAddress
                       = issued[i].account

\* C5 witness: two generateMessage calls for one account were in flight
\* together and were answered in the opposite order of their ids.
C5_Witness ==
    \E i, j \in DOMAIN issued :
        i < j /\ issued[i].account = issued[j].account /\ issued[i].id > issued[j].id

\* C6: a challenge only moves NONE -> ISSUED and ISSUED -> CONSUMED, and is
\* answered 'Done' only from ISSUED. (A token that stops resolving because a
\* later generateMessage replaced its document is not counted as a move.)
C6_Lifecycle ==
    [][\A id \in Ids :
          /\ stateOf(Signature', id) \in {stateOf(Signature, id), "NONE"}
             \/ (stateOf(Signature, id) = "NONE" /\ stateOf(Signature', id) = "ISSUED")
             \/ (stateOf(Signature, id) = "ISSUED" /\ stateOf(Signature', id) = "CONSUMED")
          /\ used'[id] # used[id] => stateOf(Signature, id) = "ISSUED"]_vars

\* C7: getSignature answers with a signature only for a token whose challenge
\* exists, is CONSUMED and whose signature was not blanked; otherwise 'No data'.
C7_ReadOnlyConsumed ==
    resp.op = "getSignature" =>
        (resp.result # NoData <=>
            /\ stateOf(Signature, resp.id) = "CONSUMED"
            /\ findOne(Signature, "signedId", resp.id).signature # emptySignature)

\* PROPOSED before SLASHED before MASTERNODE
rank(status) == CASE status = "PROPOSED" -> 1 [] status = "SLASHED" -> 2 [] OTHER -> 3

\* C8: the items of a getRewards answer are in non-increasing epoch order, and
\* among items of one epoch PROPOSED comes before SLASHED before MASTERNODE.
C8_Ordered ==
    gpc = "responded" =>
        \A i, j \in DOMAIN gresp.items :
            i < j => /\ gresp.items[i].epoch >= gresp.items[j].epoch
                     /\ gresp.items[i].epoch = gresp.items[j].epoch
                            => rank(gresp.items[i].status) < rank(gresp.items[j].status)

\* C8 witness: an answer that mixes the three categories, with one epoch in
\* all three and a later epoch behind an earlier category.
C8_Witness ==
    /\ gpc = "responded" /\ Len(gresp.items) >= 4
    /\ \E i \in DOMAIN gresp.items :
           /\ i + 2 \in DOMAIN gresp.items
           /\ gresp.items[i].epoch = gresp.items[i + 2].epoch
    /\ gresp.items[1].status = "MASTERNODE"

\* C9: a getRewards answer has at most limit items, and total is the number
\* of (record, category) pairs that list the candidate, whatever limit and
\* page are.
C9_LimitAndTotal ==
    gpc = "responded" =>
        /\ Len(gresp.items) <= query.limit
        /\ gresp.total = Cardinality({ec \in Epochs \X {"masternodes", "penalties", "proposes"} :
                                         params_candidate \in Status[ec[1]][ec[2]]})

\* C9 witness: a second page cut to limit, of a candidate with more records
\* than that and a record in two categories.
C9_Witness ==
    /\ gpc = "responded" /\ query.limit = 1 /\ query.skip = 1
    /\ Len(gresp.items) = query.limit
    /\ gresp.total > MaxEpoch
    /\ Len(proposes) + Len(penalties) + Len(masternodes) > query.limit

RECURSIVE residual(_, _, _)
\* r * 10^Len(ds) - d * (the integer written ds), given up once out of range.
residual(r, d, ds) ==
    IF ds = <<>> \/ r > d \/ r < -d THEN r
    ELSE residual(r * 10 - d * Head(ds), d, Tail(ds))

RECURSIVE zeros(_)
zeros(k) == IF k = 0 THEN <<>> ELSE <<0>> \o zeros(k - 1)

\* v is n / d to within half a unit of the last of the DECIMAL_PLACES digits.
IsQuotient(v, n, d) ==
    /\ v.kind = "BigNumber" /\ Len(v.frac) <= DECIMAL_PLACES
    /\ LET r == residual(n - d * v.int, d, v.frac \o zeros(DECIMAL_PLACES - Len(v.frac)))
       IN 2 * r <= d /\ -2 * r <= d

\* C10: a masternode record's amount is blockchainReward * signNumber /
\* totalSigners when the service gave a payload and the epoch's signer total
\* is nonzero, the payload's reward when the total is zero or missing, and 0
\* with signNumber 0 and rewardTime blockCreatedAt without a payload; the
\* status is MASTERNODE in each case, and the answer carries these entries.
C10_RewardAmount ==
    [][/\ \A i \in 1..MaxEpoch, signNumber \in TotalSignNumbers :
            totalSignNumber(i, signNumber) =>
                /\ MNArr'[i].status = "MASTERNODE"
                /\ MNArr'[i].epoch = masternodes[i].epoch
                /\ MNArr'[i].signNumber = MNArr[i].signNumber
                /\ IF signNumber \in {0, NoSignNumber}
                   THEN MNArr'[i].masternodeReward = number(ServiceReward)
                   ELSE IsQuotient(MNArr'[i].masternodeReward,
                                   blockchainReward * MNArr[i].signNumber, signNumber)
       /\ \A i \in 1..MaxEpoch :
            rewardsByEpoch(i, NoPayload) =>
                /\ MNArr'[i].status = "MASTERNODE"
                /\ MNArr'[i].epoch = masternodes[i].epoch
                /\ MNArr'[i].masternodeReward = number(0)
                /\ MNArr'[i].signNumber = 0
                /\ MNArr'[i].rewardTime = Status[masternodes[i].epoch].blockCreatedAt
       /\ getRewards_json =>
            \A k \in DOMAIN gresp'.items :
                gresp'.items[k].status = "MASTERNODE" =>
                    \E i \in DOMAIN MNArr : gresp'.items[k] = item(MNArr[i])]_vars

\* C10 witness: propose and penalty at one epoch, masternode at the epoch
\* before with signNumber 10 of 100 signers: three items, the last with
\* amount 100, total 3.
C10_Witness ==
    /\ gpc = "responded" /\ gresp.total = 3 /\ Len(gresp.items) = 3
    /\ gresp.items[1].status = "PROPOSED" /\ gresp.items[2].status = "SLASHED"
    /\ gresp.items[1].epoch = gresp.items[2].epoch
    /\ gresp.items[3].status = "MASTERNODE"
    /\ gresp.items[3].epoch = gresp.items[1].epoch - 1
    /\ gresp.items[3].signNumber = 10
    /\ gresp.items[3].masternodeReward = [kind |-> "BigNumber", int |-> 100, frac |-> <<>>]

\* A lookup of the reward service has not resolved yet.
Pending == \E i \in DOMAIN MNArr : MNArr[i].stage # "resolved"

C12_ZeroAmount ==
    gpc = "responded" =>
        /\ \A k \in DOMAIN gresp.items :
               gresp.items[k].status \in {"SLASHED", "PROPOSED"} =>
                   /\ gresp.items[k].masternodeReward = number(0)
                   /\ gresp.items[k].signNumber = 0
                   /\ gresp.items[k].rewardTime = Status[gresp.items[k].epoch].blockCreatedAt
        /\ DOMAIN MNArr = DOMAIN masternodes

\* The field of db.Status a status is built from.
fieldOf(status) ==
    CASE status = "PROPOSED" -> "proposes"
      [] status = "SLASHED" -> "penalties"
      [] OTHER -> "masternodes"

\* The place of epoch e among the records that list the candidate in field,
\* highest epoch first.
placeOf(field, e) ==
    Cardinality({f \in DOMAIN Status : params_candidate \in Status[f][field] /\ f >= e})

\* The (epoch, status) pairs of the three slices for limit L and offset skip.
Slices(L, skip) ==
    {x \in (DOMAIN Status) \X {"PROPOSED", "SLASHED", "MASTERNODE"} :
        /\ params_candidate \in Status[x[1]][fieldOf(x[2])]
        /\ placeOf(fieldOf(x[2]), x[1]) > skip
        /\ placeOf(fieldOf(x[2]), x[1]) <= skip + L}

\* x comes before y in the merge: higher epoch, then category order.
Before(x, y) == x[1] > y[1] \/ (x[1] = y[1] /\ rank(x[2]) < rank(y[2]))

\* The answer is the first L elements of the merge of the three slices.
MergedSlices(L, skip) ==
    /\ Len(gresp.items) = IF L < Cardinality(Slices(L, skip)) THEN L
                           ELSE Cardinality(Slices(L, skip))
    /\ \A k \in DOMAIN gresp.items :
           LET x == <<gresp.items[k].epoch, gresp.items[k].status>>
           IN /\ x \in Slices(L, skip)
              /\ k = 1 + Cardinality({y \in Slices(L, skip) : Before(y, x)})

\* C13: a request with limit L and page p uses L (100 when absent) and the
\* offset L * (p - 1) (0 when absent), and its answer is the first L elements
\* of the epoch-descending merge of the three categories' lists, each cut to
\* the records at places offset + 1 .. offset + L before the merge.
C13_SlicesThenMerge ==
    [][/\ \A limit \in Limits, page \in Pages :
            (getRewards_find(limit, page) /\ gpc' = "building") =>
                /\ query'.limit = IF limit = Absent THEN 100 ELSE limit
                /\ query'.skip = IF page = Absent THEN 0 ELSE query'.limit * (page - 1)
       /\ getRewards_json => MergedSlices(query.limit, query.skip)']_vars

\* C13 witness: page 2 with limit 1 of a candidate listed twice in every
\* category: the answer is the one item left of the three second records.
C13_Witness ==
    /\ gpc = "responded" /\ query.limit = 1 /\ query.skip = 1
    /\ gresp.total = 6
    /\ Len(gresp.items) = 1 /\ gresp.items[1].status = "PROPOSED"

\* C14: under every interleaving, the id of an answered generateMessage that
\* no verifyScannedQR was answered 'Done' for and that no later
\* generateMessage of the same account replaced still resolves to the
\* account's document with status true.
C14_StaysConsumable ==
    \A i \in DOMAIN issued :
        (used[issued[i].id] = 0 /\ ~Superseded(issued[i].id)) =>
            /\ stateOf(Signature, issued[i].id) = "ISSUED"
            /\ findOne(Signature, "signedId", issued[i].id).signedAddress = issued[i].account

\* C15: a step that answers verifyScannedQR with UnknownToken, AlreadyConsumed
\* or SignatureMismatch, or generateMessage with UnknownCandidate, leaves
\* db.Signature as it was.
C15_FailuresWriteNothing ==
    [][(/\ pc' = pc
        /\ \/ /\ resp'.op = "verifyScannedQR"
              /\ resp'.result \in {UnknownToken, AlreadyConsumed, SignatureMismatch}
           \/ /\ resp'.op = "generateMessage"
              /\ resp'.result = UnknownCandidate)
       => Signature' = Signature]_vars

\* C15 witness: verifyScannedQR was answered UnknownToken for an id that a
\* later generateMessage had replaced, and the account's new challenge is
\* still ISSUED.
C15_Witness ==
    /\ resp.op = "verifyScannedQR" /\ resp.result = UnknownToken
    /\ Superseded(resp.id)
    /\ \E i \in DOMAIN Signature : Signature[i].status

\* The (epoch, status) of the items built from one category's page.
entriesOf(field, status, limit, skip) ==
    [i \in DOMAIN find(field, limit, skip) |->
        [epoch |-> find(field, limit, skip)[i].epoch, status |-> status]]

\* The (epoch, status) of the items of the answer to limit and skip, once
\* every lookup has resolved.
answerTo(limit, skip) ==
    slice(sort(concat(entriesOf("proposes", "PROPOSED", limit, skip),
                      entriesOf("penalties", "SLASHED", limit, skip),
                      entriesOf("masternodes", "MASTERNODE", limit, skip))), limit)

\* The (epoch, status) of every record counted in total.
Counted ==
    {x \in [epoch : DOMAIN Status, status : {"PROPOSED", "SLASHED", "MASTERNODE"}] :
        params_candidate \in Status[x.epoch][fieldOf(x.status)]}

\* The last page a client asks for: ceil(total / L).
lastPage(L) == (total + L - 1) \div L

\* A page of the answered request's limit holds x.
OnSomePage(x) ==
    \E p \in 1..lastPage(query.limit) :
        \E k \in DOMAIN answerTo(query.limit, query.limit * (p - 1)) :
            answerTo(query.limit, query.limit * (p - 1))[k] = x

\* C16: once a request with limit L >= 1 is answered, its items are the
\* answer to its limit and offset, and every record counted in its total is
\* an item of the answer to some page p in 1 .. ceil(total / L) of that limit.
C16_NoRecordLost ==
    (gpc = "responded" /\ query.limit >= 1) =>
        /\ [k \in DOMAIN gresp.items |->
               [epoch |-> gresp.items[k].epoch, status |-> gresp.items[k].status]]
           = answerTo(query.limit, query.skip)
        /\ gresp.total = Cardinality(Counted)
        /\ \A x \in Counted : OnSomePage(x)

\* C17: a getSignature step leaves db.Signature as it was; when the last
\* answer sent was a getSignature answer for the same id, it gives that
\* answer again; and what any getSignature or verifyScannedQR request would
\* be answered is the same after the step as before it.
C17_ReadChangesNothing ==
    [][\A id \in Ids : getSignature(id) =>
          /\ Signature' = Signature
          /\ (resp.op = "getSignature" /\ resp.id = id) => resp' = resp
          /\ \A other \in Ids :
                /\ getSignature_result(findOne(Signature', "signedId", other))
                       = getSignature_result(findOne(Signature, "signedId", other))
                /\ \A message \in Messages, signature \in Signatures,
                      signer \in AccountParams :
                       verifyScannedQR_check(findOne(Signature', "signedId", other),
                                             other, message, signature, signer)
                       = verifyScannedQR_check(findOne(Signature, "signedId", other),
                                               other, message, signature, signer)]_vars

\* C17 witness: getSignature answered with the signature of a CONSUMED
\* challenge, and the challenge still holds that signature.
C17_Witness ==
    /\ resp.op = "getSignature" /\ resp.result = "signature"
    /\ resp.signature \in Signatures
    /\ stateOf(Signature, resp.id) = "CONSUMED"
    /\ findOne(Signature, "signedId", resp.id).signature = resp.signature

====
